---- MODULE Spec2Model ----
(***************************************************************************)
(* Tonearm geometry calculator (src/cli/calculator.js).                    *)
(*                                                                         *)
(* State machines over the same variables:                                 *)
(*   Spec      one invocation of the command line: parseArgs' token loop,  *)
(*             then the body of main (listing, scheme resolution, the call *)
(*             of calculateGeometry, the report or the error line);        *)
(*   FairSpec  Spec on the shorter argument lists, with the fairness that   *)
(*             makes the invocation run to its end;                        *)
(*   GeomSpec  one direct call of calculateGeometry on a triple of Numbers.*)
(*                                                                         *)
(* JavaScript Numbers are IEEE-754 binary floating point.  The model keeps *)
(* the format and narrows its widths: PrecBits significand bits, smallest  *)
(* positive (subnormal) value 2^-MinExp, finite values below 2^(MaxExp+1), *)
(* round-to-nearest-even, gradual underflow, overflow to Infinity, NaN.    *)
(* A finite Number is held as the integer count of quanta 2^-MinExp.       *)
(***************************************************************************)
EXTENDS Integers, Sequences, FiniteSets, TLC

\* ------------------------------------------------------------------------
\* Widths of the Number format and sizes of the explored inputs
\* ------------------------------------------------------------------------
PrecBits == 8
MinExp == 6
MaxExp == 14
MaxSub == 12
MaxArgs == 6
MaxLiveArgs == 4

\* 2^k (1 for k <= 0)
TwoTo[k \in Int] == IF k <= 0 THEN 1 ELSE 2 * TwoTo[k - 1]

Pow2(k) == TwoTo[k]

\* the number of binary digits of n (0 for n <= 0)
Bits[n \in Int] == IF n <= 0 THEN 0 ELSE 1 + Bits[n \div 2]

BitLen(n) == Bits[n]

\* 1.0 counted in quanta
One == Pow2(MinExp)

\* largest finite Number, in quanta
MaxFinite == (Pow2(PrecBits) - 1) * Pow2(MaxExp + 1 + MinExp - PrecBits)

\* Encoding of the non-finite Numbers: Infinity sits right above the finite
\* range, so that the integer order is the Number order; NaN is set apart
\* and every comparison with it is false (see Gt, Ge).
PosInf == MaxFinite + 1
NaN == MaxFinite + 2
NegInf == -PosInf

IsNaN(x) == x = NaN
IsFinite(x) == ~IsNaN(x) /\ x # PosInf /\ x # NegInf

Gt(a, b) == ~IsNaN(a) /\ ~IsNaN(b) /\ a > b
Ge(a, b) == ~IsNaN(a) /\ ~IsNaN(b) /\ a >= b

\* The arithmetic is written as functions of Numbers (applied through the
\* operators Pow2, BitLen, Mul, Add, Sub, Div, Sqrt), so that an operand is a
\* value.

\* spacing of the representable Numbers at and above f quanta
Ulp(f) == Pow2(BitLen(f) - PrecBits)

\* q[1] / q[2] (q[1] >= 0, q[2] > 0), counted in quanta, rounded to the
\* nearest representable Number, ties to the even significand; Infinity on
\* overflow
Round[q \in Nat \X Nat] ==
  LET f == q[1] \div q[2]
      u == Ulp(f)
      lo == (f \div u) * u
      hi == lo + u
      twiceRem == 2 * (q[1] - lo * q[2])
      r == IF twiceRem < u * q[2] THEN lo
           ELSE IF twiceRem > u * q[2] THEN hi
           ELSE IF (lo \div u) % 2 = 0 THEN lo ELSE hi
  IN IF r > MaxFinite THEN PosInf ELSE r

RoundRatio(num, den) == Round[<< num, den >>]

\* a * b for a, b >= 0
Product[q \in Nat \X Nat] ==
  IF IsNaN(q[1]) \/ IsNaN(q[2]) THEN NaN
  ELSE IF q[1] = PosInf \/ q[2] = PosInf
  THEN (IF q[1] = 0 \/ q[2] = 0 THEN NaN ELSE PosInf)
  ELSE IF q[1] = 0 \/ q[2] = 0 THEN 0
  ELSE IF q[1] > (PosInf * One) \div q[2] THEN PosInf
  ELSE RoundRatio(q[1] * q[2], One)

Mul(a, b) == Product[<< a, b >>]

\* a + b for a, b >= 0
Sum[q \in Nat \X Nat] ==
  IF IsNaN(q[1]) \/ IsNaN(q[2]) THEN NaN
  ELSE IF q[1] = PosInf \/ q[2] = PosInf THEN PosInf
  ELSE RoundRatio(q[1] + q[2], 1)

Add(a, b) == Sum[<< a, b >>]

\* a - b for a, b >= 0
Difference[q \in Nat \X Nat] ==
  IF IsNaN(q[1]) \/ IsNaN(q[2]) THEN NaN
  ELSE IF q[1] = PosInf /\ q[2] = PosInf THEN NaN
  ELSE IF q[1] = PosInf THEN PosInf
  ELSE IF q[2] = PosInf THEN NegInf
  ELSE IF q[1] >= q[2] THEN RoundRatio(q[1] - q[2], 1)
  ELSE -RoundRatio(q[2] - q[1], 1)

Sub(a, b) == Difference[<< a, b >>]

\* a / b for a, b >= 0
Quotient[q \in Nat \X Nat] ==
  IF IsNaN(q[1]) \/ IsNaN(q[2]) THEN NaN
  ELSE IF q[1] = PosInf /\ q[2] = PosInf THEN NaN
  ELSE IF q[1] = PosInf THEN PosInf
  ELSE IF q[2] = PosInf THEN 0
  ELSE IF q[2] = 0 THEN (IF q[1] = 0 THEN NaN ELSE PosInf)
  ELSE RoundRatio(q[1] * One, q[2])

Div(a, b) == Quotient[<< a, b >>]

\* largest r in [t[2], t[3]) with r * r <= t[1], by bisection
FloorSqrt[t \in Nat \X Nat \X Nat] ==
  IF t[3] - t[2] <= 1 THEN t[2]
  ELSE IF (t[2] + t[3]) \div 2 <= t[1] \div ((t[2] + t[3]) \div 2)
  THEN FloorSqrt[<< t[1], (t[2] + t[3]) \div 2, t[3] >>]
  ELSE FloorSqrt[<< t[1], t[2], (t[2] + t[3]) \div 2 >>]

\* sqrt(t[1]) quanta, t[2] its integer part, rounded to the nearest
\* representable Number, ties to the even significand
NearestRoot[t \in Nat \X Nat] ==
  LET y == t[1]
      u == Ulp(t[2])
      lo == (t[2] \div u) * u
      \* sqrt(y) against the midpoint lo + u / 2
      above == IF u = 1 THEN y > lo * lo + lo
               ELSE y > (lo + u \div 2) * (lo + u \div 2)
      tie == u > 1 /\ y = (lo + u \div 2) * (lo + u \div 2)
  IN IF lo * lo = y THEN lo
     ELSE IF above THEN lo + u
     ELSE IF tie /\ (lo \div u) % 2 = 1 THEN lo + u
     ELSE lo

RoundRoot[y \in Nat] ==
  NearestRoot[<< y, FloorSqrt[<< y, 0, Pow2((BitLen(y) + 1) \div 2) >>] >>]

\* Math.sqrt for a >= 0: the square root of a quanta is sqrt(a * One) quanta
Root[a \in Nat] ==
  IF IsNaN(a) THEN NaN
  ELSE IF a = PosInf THEN PosInf
  ELSE IF a = 0 THEN 0
  ELSE RoundRoot[a * One]

Sqrt(a) == Root[a]

\* the Number nearest to the decimal literal tenths / 10
FromTenths(tenths) == RoundRatio(tenths * One, 10)
FromInt(k) == IF k >= 0 THEN RoundRatio(k * One, 1) ELSE -RoundRatio((-k) * One, 1)

Half == One \div 2

\* ------------------------------------------------------------------------
\* Reference data
\* ------------------------------------------------------------------------
\* insertion order of the SCHEMES object literal (the order of Object.entries)
SchemeNames ==
  << "Löfgren A / Baerwald", "Löfgren B", "Stevenson", "Rega (factory)",
     "Technics (JIS-based)" >>

SCHEMES ==
  [ n \in { SchemeNames[k] : k \in 1..Len(SchemeNames) } |->
      CASE n = "Löfgren A / Baerwald" -> << FromTenths(660), FromTenths(1209) >>
        [] n = "Löfgren B" -> << FromTenths(703), FromTenths(1166) >>
        [] n = "Stevenson" -> << FromTenths(600), FromTenths(1170) >>
        [] n = "Rega (factory)" -> << FromTenths(600), FromTenths(1200) >>
        [] n = "Technics (JIS-based)" -> << FromTenths(600), FromTenths(1160) >> ]

\* ------------------------------------------------------------------------
\* calculateGeometry
\* ------------------------------------------------------------------------
PivotError == << "Pivot-to-spindle distance must be positive." >>
NullsError == << "Null points must be positive." >>
OrderError == << "Inner null must be smaller than outer null." >>
OffsetError == << "Geometry impossible: linear offset exceeds effective length." >>
NoError == << >>

\* ArgumentError with the null-point checks moved before the pivot check
ArgumentErrorNullsFirst(pivotToSpindle, innerNull, outerNull) ==
  IF ~(Gt(innerNull, 0) /\ Gt(outerNull, 0)) THEN NullsError
  ELSE IF Ge(innerNull, outerNull) THEN OrderError
  ELSE IF ~Gt(pivotToSpindle, 0) THEN PivotError
  ELSE NoError

\* ArgumentError without the innerNull >= outerNull check
ArgumentErrorNoOrderCheck(pivotToSpindle, innerNull, outerNull) ==
  IF ~Gt(pivotToSpindle, 0) THEN PivotError
  ELSE IF ~(Gt(innerNull, 0) /\ Gt(outerNull, 0)) THEN NullsError
  ELSE NoError

\* the three argument checks, in the order the first one that fails throws
ArgumentError(pivotToSpindle, innerNull, outerNull) ==
  IF ~Gt(pivotToSpindle, 0) THEN PivotError
  ELSE IF ~(Gt(innerNull, 0) /\ Gt(outerNull, 0)) THEN NullsError
  ELSE IF Ge(innerNull, outerNull) THEN OrderError
  ELSE NoError

EffectiveLength(pivotToSpindle, innerNull, outerNull) ==
  LET rProduct == Mul(innerNull, outerNull)
  IN Sqrt(Add(Mul(pivotToSpindle, pivotToSpindle), rProduct))

LinearOffset(innerNull, outerNull) == Mul(Half, Add(innerNull, outerNull))

\* the offset check made non-strict
OffsetExceedsOrEquals(linearOffset, effectiveLength) == Ge(linearOffset, effectiveLength)

\* if (linearOffset > effectiveLength)
OffsetExceeds(linearOffset, effectiveLength) == Gt(linearOffset, effectiveLength)

\* Math.asin(x) * 180 / Math.PI, kept as a term over its argument
AsinDeg(x) == << "asinDeg", x >>

Thrown(message) == [thrown |-> TRUE, message |-> message]
Returned(value) == [thrown |-> FALSE, value |-> value]

calculateGeometry(pivotToSpindle, innerNull, outerNull) ==
  LET argumentError == ArgumentError(pivotToSpindle, innerNull, outerNull)
      effectiveLength == EffectiveLength(pivotToSpindle, innerNull, outerNull)
      linearOffset == LinearOffset(innerNull, outerNull)
  IN IF argumentError # NoError THEN Thrown(argumentError)
     ELSE IF OffsetExceeds(linearOffset, effectiveLength) THEN Thrown(OffsetError)
     ELSE Returned(
       [ pivotToSpindle |-> pivotToSpindle,
         innerNull |-> innerNull,
         outerNull |-> outerNull,
         effectiveLength |-> effectiveLength,
         offsetAngleDeg |-> AsinDeg(Div(linearOffset, effectiveLength)),
         overhang |-> Sub(effectiveLength, pivotToSpindle),
         linearOffset |-> linearOffset ])

\* ------------------------------------------------------------------------
\* formatGeometry
\* ------------------------------------------------------------------------
RECURSIVE Pow10(_)
Pow10(k) == IF k <= 0 THEN 1 ELSE 10 * Pow10(k - 1)

\* n.toFixed(digits): the sign and the count of 10^-digits nearest to n, the
\* larger count on a tie
ToFixed(n, digits) ==
  IF IsNaN(n) THEN << "NaN" >>
  ELSE IF n = PosInf THEN << "Infinity" >>
  ELSE IF n = NegInf THEN << "-Infinity" >>
  ELSE LET mag == IF n < 0 THEN -n ELSE n
           count == (2 * mag * Pow10(digits) + One) \div (2 * One)
       IN << IF n < 0 /\ count > 0 THEN "-" ELSE "", count, digits >>

\* the angle term, formatted: toFixed of the asin argument under the asinDeg mark
AngleToFixed(angle, digits) == << angle[1], ToFixed(angle[2], digits) >>

\* formatGeometry without its offset-angle line
FormatGeometryDropsLine(values) ==
  << << "Pivot-to-spindle:  ", ToFixed(values.pivotToSpindle, 2), " mm" >>,
     << "Null points:       ", ToFixed(values.innerNull, 2), " mm / ",
        ToFixed(values.outerNull, 2), " mm" >>,
     << "Effective length:  ", ToFixed(values.effectiveLength, 2), " mm" >>,
     << "Overhang:          ", ToFixed(values.overhang, 3), " mm" >>,
     << "Linear offset:     ", ToFixed(values.linearOffset, 3), " mm" >> >>

\* the six lines of the report, joined by newlines in the source
formatGeometry(values) ==
  << << "Pivot-to-spindle:  ", ToFixed(values.pivotToSpindle, 2), " mm" >>,
     << "Null points:       ", ToFixed(values.innerNull, 2), " mm / ",
        ToFixed(values.outerNull, 2), " mm" >>,
     << "Effective length:  ", ToFixed(values.effectiveLength, 2), " mm" >>,
     << "Offset angle:      ", AngleToFixed(values.offsetAngleDeg, 3), " deg" >>,
     << "Overhang:          ", ToFixed(values.overhang, 3), " mm" >>,
     << "Linear offset:     ", ToFixed(values.linearOffset, 3), " mm" >> >>

\* ------------------------------------------------------------------------
\* Command-line tokens
\* ------------------------------------------------------------------------
\* the argument tokens explored: the three flags, "--bogus" for any unknown
\* flag, two decimal literals, and a scheme name (which is also a word that
\* is no number, as the literals are words that are no scheme names)
Tokens ==
  { "--scheme", "--nulls", "--list-schemes", "--bogus", "100", "3", "Stevenson" }

\* what Array.prototype.shift returns on an empty array; no token is this word
undefined == "undefined"

\* null of an args field: the field holds << >> or << value >>
null == << >>

\* token.startsWith("--")
StartsWithDashes(token) ==
  token \in { "--scheme", "--nulls", "--list-schemes", "--bogus" }

\* parseFloat(token): the decimal literal's Number, NaN for every other token
\* and for undefined
parseFloat(token) ==
  CASE token = "100" -> FromInt(100)
    [] token = "3" -> FromInt(3)
    [] OTHER -> NaN

\* Number.isFinite
NumberIsFinite(x) == IsFinite(x)

\* a shift that reads the first element and leaves the list as it is
ShiftKeeps(list) ==
  [ value |-> IF list = << >> THEN undefined ELSE Head(list), rest |-> list ]

\* rest.shift(): the removed first element (undefined when empty) and what is left
Shift(list) ==
  [ value |-> IF list = << >> THEN undefined ELSE Head(list),
    rest |-> IF list = << >> THEN << >> ELSE Tail(list) ]

\* truthiness of a string-or-undefined value
Falsy(value) == value = undefined \/ value = ""

ChooseOneError == << "Choose only one of --scheme or --nulls." >>
SchemeValueError == << "--scheme requires a value." >>
NullsValueError == << "--nulls requires two numeric values." >>
UnknownFlagError(token) == << "Unknown flag: ", token >>
PivotTwiceError == << "Pivot-to-spindle distance already provided." >>
PivotNumericError == << "Pivot-to-spindle distance must be numeric." >>
PivotRequiredError ==
  << "pivot-to-spindle distance is required unless --list-schemes is used" >>
UnknownSchemeError(name) == << "unknown scheme '", name, "'" >>
ChooseError == << "choose --scheme or provide --nulls" >>

\* `error: ${message}`
ErrorLine(message) == << "error: " >> \o message

\* the conflict test looking at args.nulls alone
AlreadyChosenNullsOnly(a) == a.nulls # null

\* args.scheme || args.nulls
AlreadyChosen(a) == a.scheme # null \/ a.nulls # null

\* One iteration of parseArgs' while loop on the token list `list` with the
\* fields `a`: the token list left, and either the new fields or the message
\* of the Error thrown.
ParseToken(a, list) ==
  LET first == Shift(list)
      token == first.value
  IN CASE token = "--scheme" ->
            IF AlreadyChosen(a)
            THEN [rest |-> first.rest, args |-> a, error |-> ChooseOneError]
            ELSE LET second == Shift(first.rest)
                     name == second.value
                 IN IF Falsy(name)
                    THEN [rest |-> second.rest, args |-> a, error |-> SchemeValueError]
                    ELSE [rest |-> second.rest,
                          args |-> [a EXCEPT !.scheme = << name >>],
                          error |-> NoError]
       [] token = "--nulls" ->
            IF AlreadyChosen(a)
            THEN [rest |-> first.rest, args |-> a, error |-> ChooseOneError]
            ELSE LET second == Shift(first.rest)
                     third == Shift(second.rest)
                     inner == parseFloat(second.value)
                     outer == parseFloat(third.value)
                 IN IF ~NumberIsFinite(inner) \/ ~NumberIsFinite(outer)
                    THEN [rest |-> third.rest, args |-> a, error |-> NullsValueError]
                    ELSE [rest |-> third.rest,
                          args |-> [a EXCEPT !.nulls = << inner, outer >>],
                          error |-> NoError]
       [] token = "--list-schemes" ->
            [rest |-> first.rest, args |-> [a EXCEPT !.listSchemes = TRUE],
             error |-> NoError]
       [] OTHER ->
            IF StartsWithDashes(token)
            THEN [rest |-> first.rest, args |-> a, error |-> UnknownFlagError(token)]
            ELSE IF a.pivotToSpindle # null
            THEN [rest |-> first.rest, args |-> a, error |-> PivotTwiceError]
            ELSE LET len == parseFloat(token)
                 IN IF ~NumberIsFinite(len)
                    THEN [rest |-> first.rest, args |-> a, error |-> PivotNumericError]
                    ELSE [rest |-> first.rest,
                          args |-> [a EXCEPT !.pivotToSpindle = << len >>],
                          error |-> NoError]

\* the console.log lines of the scheme listing, in Object.entries order
SchemeListing ==
  [ k \in 1..Len(SchemeNames) |->
      << SchemeNames[k], ": ", SCHEMES[SchemeNames[k]][1], " mm / ",
         SCHEMES[SchemeNames[k]][2], " mm" >> ]

\* the listing test placed after the positional-argument test
ListingRequestedNeedsPivot(a) == a.listSchemes /\ a.pivotToSpindle # null

\* if (args.listSchemes)
ListingRequested(a) == a.listSchemes

\* ResolveNulls with the pair of a scheme taken in the wrong order
ResolveNullsSwapped(a) ==
  IF a.nulls # null THEN [nulls |-> a.nulls, error |-> NoError]
  ELSE IF a.scheme # null
  THEN IF a.scheme[1] \notin DOMAIN SCHEMES
       THEN [nulls |-> null, error |-> UnknownSchemeError(a.scheme[1])]
       ELSE [nulls |-> << SCHEMES[a.scheme[1]][2], SCHEMES[a.scheme[1]][1] >>,
             error |-> NoError]
  ELSE [nulls |-> null, error |-> ChooseError]

\* the null points main resolves from args: either the pair or the message of
\* the error line
ResolveNulls(a) ==
  IF a.nulls # null THEN [nulls |-> a.nulls, error |-> NoError]
  ELSE IF a.scheme # null
  THEN IF a.scheme[1] \notin DOMAIN SCHEMES
       THEN [nulls |-> null, error |-> UnknownSchemeError(a.scheme[1])]
       ELSE [nulls |-> SCHEMES[a.scheme[1]], error |-> NoError]
  ELSE [nulls |-> null, error |-> ChooseError]

\* ------------------------------------------------------------------------
\* State
\* ------------------------------------------------------------------------
VARIABLES
  argv,      \* process.argv.slice(2)
  rest,      \* parseArgs: the tokens not yet consumed
  args,      \* parseArgs: the fields collected so far
  pc,        \* "parseArgs", "main" (parseArgs has returned), "exit";
             \* "call", "returned" for the direct call of GeomSpec
  stdout,    \* the lines written by console.log
  stderr,    \* the lines written by console.error
  exitCode,  \* the process exit code (0 unless process.exit(1) ran)
  calls,     \* the argument triples calculateGeometry was called with
  geometry   \* what the last call of calculateGeometry returned or threw

vars == << argv, rest, args, pc, stdout, stderr, exitCode, calls, geometry >>

NoGeometry == [thrown |-> FALSE, value |-> << >>]

Init ==
  /\ \E n \in 0..MaxArgs : argv \in [1..n -> Tokens]
  /\ rest = argv
  /\ args = [pivotToSpindle |-> null, scheme |-> null, nulls |-> null,
             listSchemes |-> FALSE]
  /\ pc = "parseArgs"
  /\ stdout = << >>
  /\ stderr = << >>
  /\ exitCode = 0
  /\ calls = << >>
  /\ geometry = NoGeometry

\* console.error(`error: ${message}`); process.exit(1)
Fail(message) ==
  /\ stderr' = Append(stderr, ErrorLine(message))
  /\ exitCode' = 1
  /\ pc' = "exit"

\* one iteration of the while loop of parseArgs; an Error thrown in it is
\* caught by main, which writes the error line and exits
ParseArgsIteration ==
  /\ pc = "parseArgs"
  /\ rest # << >>
  /\ LET step == ParseToken(args, rest)
     IN /\ rest' = step.rest
        /\ args' = step.args
        /\ IF step.error # NoError
           THEN Fail(step.error)
           ELSE UNCHANGED << pc, stderr, exitCode >>
  /\ UNCHANGED << argv, stdout, calls, geometry >>

\* the loop ends: parseArgs returns args to main
ParseArgsReturn ==
  /\ pc = "parseArgs"
  /\ rest = << >>
  /\ pc' = "main"
  /\ UNCHANGED << argv, rest, args, stdout, stderr, exitCode, calls, geometry >>

\* main after parseArgs: --list-schemes
MainListSchemes ==
  /\ pc = "main"
  /\ ListingRequested(args)
  /\ stdout' = stdout \o SchemeListing
  /\ pc' = "exit"
  /\ UNCHANGED << argv, rest, args, stderr, exitCode, calls, geometry >>

\* main after parseArgs: the positional argument is missing
MainPivotRequired ==
  /\ pc = "main"
  /\ ~ListingRequested(args)
  /\ args.pivotToSpindle = null
  /\ Fail(PivotRequiredError)
  /\ UNCHANGED << argv, rest, args, stdout, calls, geometry >>

\* main after parseArgs: no null points can be resolved
MainUnresolved ==
  /\ pc = "main"
  /\ ~ListingRequested(args)
  /\ args.pivotToSpindle # null
  /\ ResolveNulls(args).error # NoError
  /\ Fail(ResolveNulls(args).error)
  /\ UNCHANGED << argv, rest, args, stdout, calls, geometry >>

\* main after parseArgs: calculateGeometry is called; its result is printed,
\* or the Error it throws is reported
MainCalculate ==
  /\ pc = "main"
  /\ ~ListingRequested(args)
  /\ args.pivotToSpindle # null
  /\ ResolveNulls(args).error = NoError
  /\ \E nulls \in { ResolveNulls(args).nulls } :
     \E g \in { calculateGeometry(args.pivotToSpindle[1], nulls[1], nulls[2]) } :
        /\ calls' = Append(calls, << args.pivotToSpindle[1], nulls[1], nulls[2] >>)
        /\ geometry' = g
        /\ IF g.thrown
           THEN /\ Fail(g.message)
                /\ UNCHANGED stdout
           ELSE /\ stdout' = stdout \o formatGeometry(g.value)
                /\ pc' = "exit"
                /\ UNCHANGED << stderr, exitCode >>
  /\ UNCHANGED << argv, rest, args >>

Next ==
  \/ ParseArgsIteration
  \/ ParseArgsReturn
  \/ MainListSchemes
  \/ MainPivotRequired
  \/ MainUnresolved
  \/ MainCalculate

Spec == Init /\ [][Next]_vars

\* The same invocation under the fairness its scheduling gives: node runs the
\* script's one synchronous call of main() to its end, so a step that can be
\* taken is taken.
FairInit == Init /\ Len(argv) <= MaxLiveArgs

FairSpec == FairInit /\ [][Next]_vars /\ WF_vars(Next)

\* ------------------------------------------------------------------------
\* Direct calls of calculateGeometry
\* ------------------------------------------------------------------------
\* the Numbers tried as arguments: NaN, -1, 0, the smallest positive Numbers,
\* 1, 2, 3, a finite Number whose square overflows, and Infinity
GeomInputs ==
  { NaN, -One, 0, PosInf, Pow2(MaxExp + MinExp) } \cup (1..MaxSub)
    \cup { One, 2 * One, 3 * One }

GeomInit ==
  /\ argv = << >>
  /\ rest = << >>
  /\ args = [pivotToSpindle |-> null, scheme |-> null, nulls |-> null,
             listSchemes |-> FALSE]
  /\ pc = "call"
  /\ stdout = << >>
  /\ stderr = << >>
  /\ exitCode = 0
  /\ calls = << >>
  /\ geometry = NoGeometry

GeomCall ==
  /\ pc = "call"
  /\ \E pivotToSpindle \in GeomInputs, innerNull \in GeomInputs, outerNull \in GeomInputs :
       /\ calls' = Append(calls, << pivotToSpindle, innerNull, outerNull >>)
       /\ geometry' = calculateGeometry(pivotToSpindle, innerNull, outerNull)
  /\ pc' = "returned"
  /\ UNCHANGED << argv, rest, args, stdout, stderr, exitCode >>

GeomNext == GeomCall

GeomSpec == GeomInit /\ [][GeomNext]_vars

\* ------------------------------------------------------------------------
\* Properties of calculateGeometry (checked under GeomSpec)
\* ------------------------------------------------------------------------
\* the arguments of the call
pivotToSpindle == calls[1][1]
innerNull == calls[1][2]
outerNull == calls[1][3]

ChecksOneToThreePass ==
  /\ Gt(pivotToSpindle, 0)
  /\ Gt(innerNull, 0)
  /\ Gt(outerNull, 0)
  /\ Gt(outerNull, innerNull)

\* C1: calculateGeometry fails if and only if pivotToSpindle is not strictly
\* positive, or a null point is not strictly positive, or innerNull >=
\* outerNull, or the computed linearOffset is strictly greater than the
\* computed effectiveLength; in every other case it returns a result record.
C1_FailsIff ==
  pc = "returned" =>
    /\ geometry.thrown <=>
         \/ ~Gt(pivotToSpindle, 0)
         \/ ~Gt(innerNull, 0)
         \/ ~Gt(outerNull, 0)
         \/ Ge(innerNull, outerNull)
         \/ Gt(LinearOffset(innerNull, outerNull),
               EffectiveLength(pivotToSpindle, innerNull, outerNull))
    /\ ~geometry.thrown =>
         /\ geometry.value.pivotToSpindle = pivotToSpindle
         /\ geometry.value.innerNull = innerNull
         /\ geometry.value.outerNull = outerNull

\* an input that passes the three argument checks and fails the offset check
C1_Witness ==
  /\ pc = "returned"
  /\ ChecksOneToThreePass
  /\ geometry.thrown
  /\ geometry.message = OffsetError

\* C7: for every accepted input the returned effectiveLength is strictly
\* positive and at least pivotToSpindle, and the returned overhang is never
\* negative.
C7_EffectiveLengthAtLeastPivot ==
  (pc = "returned" /\ ~geometry.thrown) =>
    /\ Gt(geometry.value.effectiveLength, 0)
    /\ Ge(geometry.value.effectiveLength, pivotToSpindle)
    /\ ~Gt(0, geometry.value.overhang)

\* C8: the offset check is strict: an input that passes the first three
\* checks and whose computed linearOffset equals its computed effectiveLength
\* is accepted, and every returned result has linearOffset <= effectiveLength.
C8_StrictOffsetCheck ==
  pc = "returned" =>
    /\ ( /\ ChecksOneToThreePass
         /\ LinearOffset(innerNull, outerNull)
              = EffectiveLength(pivotToSpindle, innerNull, outerNull) )
         => ~geometry.thrown
    /\ ~geometry.thrown =>
         Ge(geometry.value.effectiveLength, geometry.value.linearOffset)

\* equality reached: outerNull - innerNull = 2 * pivotToSpindle, accepted with
\* linearOffset = effectiveLength
C8_Witness ==
  /\ pc = "returned"
  /\ ~geometry.thrown
  /\ IsFinite(outerNull)
  /\ outerNull - innerNull = 2 * pivotToSpindle
  /\ geometry.value.linearOffset = geometry.value.effectiveLength

\* C9: the checks are applied in a fixed order and the first that fails is
\* reported: the pivot error for a non-positive pivotToSpindle whatever the
\* null points; otherwise the null-points error for a non-positive null point
\* even when innerNull >= outerNull; otherwise the order error for innerNull
\* >= outerNull; the offset error only when the first three checks pass.
C9_FirstFailingCheck ==
  pc = "returned" =>
    /\ ~Gt(pivotToSpindle, 0) =>
         (geometry.thrown /\ geometry.message = PivotError)
    /\ (Gt(pivotToSpindle, 0) /\ ~(Gt(innerNull, 0) /\ Gt(outerNull, 0))) =>
         (geometry.thrown /\ geometry.message = NullsError)
    /\ (Gt(pivotToSpindle, 0) /\ Gt(innerNull, 0) /\ Gt(outerNull, 0)
          /\ Ge(innerNull, outerNull)) =>
         (geometry.thrown /\ geometry.message = OrderError)
    /\ (geometry.thrown /\ geometry.message = OffsetError) => ChecksOneToThreePass

\* a non-positive null point together with innerNull >= outerNull
C9_Witness ==
  /\ pc = "returned"
  /\ Gt(pivotToSpindle, 0)
  /\ ~Gt(outerNull, 0)
  /\ Ge(innerNull, outerNull)
  /\ geometry.thrown
  /\ geometry.message = NullsError

\* ------------------------------------------------------------------------
\* Properties of the command line (checked under Spec)
\* ------------------------------------------------------------------------
Contains(list, token) == \E k \in 1..Len(list) : list[k] = token

IsNumericToken(token) == NumberIsFinite(parseFloat(token))

IsUnknownFlag(token) ==
  /\ StartsWithDashes(token)
  /\ token \notin { "--scheme", "--nulls", "--list-schemes" }

OneErrorLine == Len(stderr) = 1 /\ stderr[1][1] = "error: "

\* C2: whenever the argument list contains --list-schemes, whatever the other
\* tokens are, the invocation prints the five scheme lines and exits with 0.
C2_ListSchemesIgnoresAll ==
  (pc = "exit" /\ Contains(argv, "--list-schemes")) =>
    (exitCode = 0 /\ stdout = SchemeListing)

\* C2 as amended: once parseArgs has returned with listSchemes set, main
\* prints the five scheme lines and ends with exit code 0, writing nothing to
\* standard error and never calling calculateGeometry, whatever the other
\* fields of args hold.
C2_ListSchemesAfterParse ==
  [][(pc = "main" /\ args.listSchemes) =>
       /\ pc' = "exit"
       /\ exitCode' = 0
       /\ stdout' = SchemeListing
       /\ Len(stdout') = 5
       /\ stderr' = << >>
       /\ calls' = << >>]_vars

\* a listing printed although a positional value and a scheme were also given
C2_Witness ==
  /\ pc = "exit"
  /\ args.listSchemes
  /\ args.pivotToSpindle # null
  /\ args.scheme # null
  /\ exitCode = 0
  /\ stdout = SchemeListing

\* --scheme followed by a name, and --nulls followed by two numeric values
BothSupplied ==
  /\ \E k \in 1..(Len(argv) - 1) : argv[k] = "--scheme"
  /\ \E k \in 1..(Len(argv) - 2) :
       /\ argv[k] = "--nulls"
       /\ IsNumericToken(argv[k + 1])
       /\ IsNumericToken(argv[k + 2])

UsageErrors ==
  { ChooseOneError, SchemeValueError, NullsValueError, PivotTwiceError,
    PivotNumericError, PivotRequiredError, ChooseError }
    \cup { UnknownFlagError(t) : t \in Tokens }

\* C3: when both --scheme with a name and --nulls with two values are
\* supplied, in either order and with any tokens around them, the invocation
\* ends with a usage error (exit code 1) and never calls calculateGeometry.
C3_BothIsUsageError ==
  BothSupplied =>
    /\ calls = << >>
    /\ pc = "exit" =>
         /\ exitCode = 1
         /\ stdout = << >>
         /\ \E m \in UsageErrors : stderr = << ErrorLine(m) >>

\* both supplied, with another token around them, refused as a conflict
C3_Witness ==
  /\ pc = "exit"
  /\ BothSupplied
  /\ Len(argv) = 6
  /\ stderr = << ErrorLine(ChooseOneError) >>

ReportLabels ==
  << "Pivot-to-spindle:  ", "Null points:       ", "Effective length:  ",
     "Offset angle:      ", "Overhang:          ", "Linear offset:     " >>

IsFullReport(lines) ==
  /\ Len(lines) = 6
  /\ \A k \in 1..6 : lines[k][1] = ReportLabels[k]

\* C4: output is all-or-nothing: exit code 1 goes with nothing on standard
\* output and exactly one `error: ` line on standard error; exit code 0 goes
\* with nothing on standard error and either the complete six-line report or
\* the complete scheme listing on standard output; nothing is written to
\* standard output by an invocation that then fails.
C4_AllOrNothing ==
  /\ stdout # << >> => (pc = "exit" /\ exitCode = 0)
  /\ pc # "exit" => (stderr = << >> /\ exitCode = 0)
  /\ pc = "exit" =>
       \/ exitCode = 1 /\ stdout = << >> /\ OneErrorLine
       \/ exitCode = 0 /\ stderr = << >>
            /\ (stdout = SchemeListing \/ IsFullReport(stdout))

\* a geometry report printed
C4_Witness ==
  /\ pc = "exit"
  /\ exitCode = 0
  /\ calls # << >>
  /\ IsFullReport(stdout)

\* C5: every argument list that contains an unknown flag token, at whatever
\* position, ends with exit code 1 and an `error: ` line.
C5_UnknownFlagFails ==
  (pc = "exit" /\ \E k \in 1..Len(argv) : IsUnknownFlag(argv[k])) =>
    (exitCode = 1 /\ OneErrorLine)

\* a numeric positional value and --scheme n, in either order, nothing else
SchemeInvocation(n) ==
  /\ Len(argv) = 3
  /\ ~Contains(argv, "--nulls")
  /\ ~Contains(argv, "--list-schemes")
  /\ \/ argv[1] = "--scheme" /\ argv[2] = n /\ IsNumericToken(argv[3])
     \/ IsNumericToken(argv[1]) /\ argv[2] = "--scheme" /\ argv[3] = n

PositionalOf(list) == IF list[1] = "--scheme" THEN list[3] ELSE list[1]

C10_Terminates ==
  /\ [][ /\ (pc = "parseArgs" /\ rest # << >>) =>
              (Len(rest') < Len(rest) /\ Len(rest') >= Len(rest) - 3)
         /\ pc # "exit" ]_vars
  /\ <>(pc = "exit" /\ exitCode \in {0, 1})

\* a run that consumed --nulls with its two values and a positional value
C10_Witness ==
  /\ pc = "exit"
  /\ Len(argv) >= 4
  /\ rest = << >>
  /\ args.nulls # null
  /\ args.pivotToSpindle # null
====
